---- MODULE Spec2Model ----
(***************************************************************************)
(* Model of conanfile.py, the Conan recipe FoundationRecipe.               *)
(*                                                                         *)
(* One behaviour is one recipe evaluation: the orchestrator (Conan) calls  *)
(* the recipe's lifecycle methods, each at most once, in an order of its   *)
(* own choosing, and aborts the evaluation at the first exception.  Every  *)
(* action below is one whole method of the recipe.  What the collaborators *)
(* return (git, the environment, cmake) is an input of the action.         *)
(*                                                                         *)
(* Strings the recipe slices (the tag, the version) are sequences of       *)
(* one-character strings; the others are TLA+ strings.  An optional value  *)
(* (Python None or a value) is a sequence of length 0 or 1.                *)
(***************************************************************************)
EXTENDS Naturals, Sequences, FiniteSets

VARIABLES
    recipe,            \* class attributes name, version, author, url, description
    settings,          \* the configured values of settings 'compiler', 'build_type'
    info,              \* self.info, the package identity info
    env,               \* the process environment's CONAN_RUN_TESTS (optional)
    test_requirements, \* the references declared through self.test_requires
    conan_data,        \* the persisted conandata store (self.conan_data / conandata.yml)
    work_tree,         \* the source folder the source() method clones into
    folders,           \* the layout declared through cmake_layout
    done,              \* the lifecycle methods the orchestrator has invoked
    error,             \* the exception that aborted the evaluation (optional)
    calls,             \* per method, the collaborator calls it made, in order
    src_after_export   \* history: source() ran after export() in this evaluation

vars == <<recipe, settings, info, env, test_requirements, conan_data, work_tree,
          folders, done, error, calls, src_after_export>>

----------------------------------------------------------------------------
\* Bounds and value sets

MaxTagLen == 2

TagChars == {"v", "1"}

None == <<>>
Some(x) == <<x>>

RECURSIVE SeqsUpTo(_, _)
SeqsUpTo(S, n) ==
    IF n = 0 THEN {<<>>}
    ELSE LET shorter == SeqsUpTo(S, n - 1)
         IN shorter \cup {Append(s, c) : s \in {t \in shorter : Len(t) = n - 1}, c \in S}

ExampleTag == <<"v", "2", ".", "3", ".", "1">>

\* What `git describe --tags` can print: a non-empty tag name.
Tags == (SeqsUpTo(TagChars, MaxTagLen) \ {<<>>}) \cup {ExampleTag}

Compilers == {"gcc", "clang"}
BuildTypes == {"Debug", "Release"}
EnvValues == {None, Some("1"), Some("True"), Some("0")}
Urls == {"u1", "u2"}
Commits == {"c1", "c2"}

Phases == {"set_version", "package_id", "build_requirements", "export", "source",
           "layout", "build", "package"}

\* A dict is a function on its set of keys.
EmptyDict == [k \in {} |-> None]

Restrict(d, keys) == [k \in keys |-> d[k]]

OldSource == [k \in {"url", "commit", "branch"} |->
                 IF k = "url" THEN "u1" ELSE IF k = "commit" THEN "c1" ELSE "main"]

OldData == [k \in {"source", "patches"} |-> IF k = "source" THEN OldSource ELSE "p1"]

\* The stores an evaluation can start from: no conandata, a conandata written by
\* hand or by an earlier export, with or without a `source` entry and its keys.
InitialStores ==
    {Restrict(OldData, {"patches"} \cap top) : top \in SUBSET {"patches"}}
    \cup
    {[k \in {"source"} \cup top |->
         IF k = "source" THEN Restrict(OldSource, sub) ELSE OldData[k]] :
       top \in SUBSET {"patches"}, sub \in SUBSET {"url", "commit", "branch"}}

Call(op, arg, ok, out) == [op |-> op, arg |-> arg, ok |-> ok, out |-> out]

Raised(phase, kind) == Some([phase |-> phase, kind |-> kind])

EmptyTree == [cloned |-> FALSE, url |-> "", head |-> ""]

----------------------------------------------------------------------------
\* Collaborators' results, the inputs of the actions

\* LegacyGit.run('describe --tags'): the tag, or an exception when no tag is reachable.
DescribeResults ==
    {[ok |-> FALSE, out |-> <<>>]} \cup {[ok |-> TRUE, out |-> t] : t \in Tags}

\* Git.get_url_and_commit(): the pair, or an exception outside a checkout with a remote.
UrlCommitResults ==
    {[ok |-> FALSE, url |-> "", commit |-> ""]}
    \cup {[ok |-> TRUE, url |-> u, commit |-> c] : u \in Urls, c \in Commits}

\* Git.clone(url, target = '.'): the work tree at the remote's default head, or an exception.
CloneResults ==
    {[ok |-> FALSE, head |-> ""]} \cup {[ok |-> TRUE, head |-> h] : h \in Commits}

----------------------------------------------------------------------------
\* The recipe

\* Variant of get_env: the variable's string itself taken as the truth value,
\* so that any non-empty value enables the toggle.
get_env_truthy(value, default) ==
    IF value = None THEN default ELSE value[1] # ""

\* conans.tools.get_env(name, default) as the recipe calls it, with a bool default:
\* the default when the variable is unset, else whether the value is "1" or "True".
get_env(value, default) ==
    IF value = None THEN default ELSE value[1] \in {"1", "True"}

_run_tests == get_env(env, FALSE)

\* The identity info Conan hands to package_id(): the configured settings; the
\* recipe declares no options and no requires.
InitialInfo(s) == [settings |-> s, options |-> EmptyDict, requires |-> {}]

\* Variant of info_clear: options and requires cleared, the settings kept.
info_clear_keeps_settings(i) ==
    [i EXCEPT !.options = EmptyDict, !.requires = {}]

\* self.info.clear()
info_clear(i) ==
    [i EXCEPT !.settings = EmptyDict, !.options = EmptyDict, !.requires = {}]

\* Variant of tag_to_version: tag.lstrip('v'), every leading v removed and
\* nothing else.
RECURSIVE tag_to_version_lstrip(_)
tag_to_version_lstrip(tag) ==
    IF tag # <<>> /\ Head(tag) = "v" THEN tag_to_version_lstrip(Tail(tag)) ELSE tag

\* tag[1:]
tag_to_version(tag) == SubSeq(tag, 2, Len(tag))

\* The body of set_version() on the result r of the describe query: the recipe
\* after it, and the exception it let through.
set_version_result(rcp, r) ==
    IF r.ok
    THEN [recipe |-> [rcp EXCEPT !.version = Some(tag_to_version(r.out))], error |-> None]
    ELSE [recipe |-> rcp, error |-> Raised("set_version", "ConanException")]

\* The references build_requirements() declares when the toggle has value `toggle`.
declared_test_requires(toggle) ==
    IF toggle THEN {"catch2/2.13.9", "trompeloeil/42"} ELSE {}

\* dict.update on a dict of plain values
dict_update(d, u) ==
    [k \in DOMAIN d \cup DOMAIN u |-> IF k \in DOMAIN u THEN u[k] ELSE d[k]]

\* Variant of update_conandata: the stored document replaced by u.
update_conandata_replaces(data, u) == u

\* conan.tools.files.update_conandata(self, u) for a u whose values are dicts of
\* plain values, as the recipe passes: the stored document is updated key by
\* key, and a dict value is merged into the stored dict of that key.
update_conandata(data, u) ==
    [k \in DOMAIN data \cup DOMAIN u |->
        IF k \in DOMAIN u
        THEN dict_update(IF k \in DOMAIN data THEN data[k] ELSE EmptyDict, u[k])
        ELSE data[k]]

\* Variant of source_record: the url and the commit stored under each other's key.
source_record_swapped(scm_url, scm_commit) ==
    [k \in {"source"} |->
        [j \in {"commit", "url"} |-> IF j = "commit" THEN scm_url ELSE scm_commit]]

\* The dict export() passes to update_conandata.
source_record(scm_url, scm_commit) ==
    [k \in {"source"} |->
        [j \in {"commit", "url"} |-> IF j = "commit" THEN scm_commit ELSE scm_url]]

\* Variant of export_result: a failed query caught, and an empty record written.
export_result_fallback(data, r) ==
    [conan_data |-> update_conandata(data, source_record(r.url, r.commit)),
     error |-> None]

\* The body of export() on the result r of get_url_and_commit.
export_result(data, r) ==
    IF r.ok
    THEN [conan_data |-> update_conandata(data, source_record(r.url, r.commit)),
          error |-> None]
    ELSE [conan_data |-> data, error |-> Raised("export", "ConanException")]

\* The body of source() on the store `data` and the work tree `wt`, when the
\* clone, if reached, returns cl and the checkout, if reached, succeeds iff co:
\* the calls made in order, the work tree left, and the exception let through.
source_result(data, wt, cl, co) ==
    IF "source" \notin DOMAIN data
    THEN [calls |-> <<Call("conan_data['source']", "source", FALSE, EmptyDict)>>,
          work_tree |-> wt, error |-> Raised("source", "KeyError")]
    ELSE
    LET src == data["source"]
        read == Call("conan_data['source']", "source", TRUE, src)
    IN
    IF "url" \notin DOMAIN src
    THEN [calls |-> <<read>>, work_tree |-> wt, error |-> Raised("source", "KeyError")]
    ELSE
    LET clone == Call("clone", src["url"], cl.ok, cl.head)
        cloned == [cloned |-> TRUE, url |-> src["url"], head |-> cl.head]
    IN
    IF ~cl.ok
    THEN [calls |-> <<read, clone>>, work_tree |-> wt,
          error |-> Raised("source", "ConanException")]
    ELSE IF "commit" \notin DOMAIN src
    THEN [calls |-> <<read, clone>>, work_tree |-> cloned,
          error |-> Raised("source", "KeyError")]
    ELSE
    LET checkout == Call("checkout", src["commit"], co, src["commit"])
    IN
    IF ~co
    THEN [calls |-> <<read, clone, checkout>>, work_tree |-> cloned,
          error |-> Raised("source", "ConanException")]
    ELSE [calls |-> <<read, clone, checkout>>,
          work_tree |-> [cloned EXCEPT !.head = src["commit"]],
          error |-> None]

\* Variant of build_result: build() called whatever configure() did.
build_result_ignores_configure(cf, bd) ==
    [calls |-> <<Call("configure", "", cf, ""), Call("build", "", bd, "")>>,
     error |-> IF cf /\ bd THEN None ELSE Raised("build", "ConanException")]

\* The body of build() when configure succeeds iff cf and build, if reached, iff bd.
build_result(cf, bd) ==
    IF ~cf
    THEN [calls |-> <<Call("configure", "", FALSE, "")>>,
          error |-> Raised("build", "ConanException")]
    ELSE [calls |-> <<Call("configure", "", TRUE, ""), Call("build", "", bd, "")>>,
          error |-> IF bd THEN None ELSE Raised("build", "ConanException")]

\* The body of package() when install succeeds iff ok.
package_result(ok) ==
    [calls |-> <<Call("install", "", ok, "")>>,
     error |-> IF ok THEN None ELSE Raised("package", "ConanException")]

----------------------------------------------------------------------------
\* The evaluation

ClassAttributes ==
    [name |-> "foundation",
     version |-> None,
     author |-> "M. Emery Goss <m.goss792@gmail.com>",
     url |-> "https://github.com/mry792/foundation.git",
     description |-> "Collection of standard utilities. All support compiling for embedded systems."]

Init ==
    /\ recipe = ClassAttributes
    /\ settings \in [compiler : Compilers, build_type : BuildTypes]
    /\ info = InitialInfo(settings)
    /\ env \in EnvValues
    /\ test_requirements = {}
    /\ conan_data \in InitialStores
    /\ work_tree = EmptyTree
    /\ folders = "default"
    /\ done = {}
    /\ error = None
    /\ calls = [p \in Phases |-> <<>>]
    /\ src_after_export = FALSE

\* The orchestrator invokes a method at most once, and none after an exception.
CanRun(phase) == phase \notin done /\ error = None

package_id ==
    /\ CanRun("package_id")
    /\ info' = info_clear(info)
    /\ done' = done \cup {"package_id"}
    /\ UNCHANGED <<recipe, settings, env, test_requirements, conan_data, work_tree,
                   folders, error, calls, src_after_export>>

set_version ==
    /\ CanRun("set_version")
    /\ \E r \in DescribeResults :
         LET res == set_version_result(recipe, r)
         IN /\ recipe' = res.recipe
            /\ error' = res.error
            /\ calls' = [calls EXCEPT !["set_version"] =
                            <<Call("describe --tags", "recipe_folder", r.ok, r.out)>>]
    /\ done' = done \cup {"set_version"}
    /\ UNCHANGED <<settings, info, env, test_requirements, conan_data, work_tree,
                   folders, src_after_export>>

build_requirements ==
    /\ CanRun("build_requirements")
    /\ test_requirements' = test_requirements \cup declared_test_requires(_run_tests)
    /\ done' = done \cup {"build_requirements"}
    /\ UNCHANGED <<recipe, settings, info, env, conan_data, work_tree, folders,
                   error, calls, src_after_export>>

\* Variant of export: the version also set, to the captured commit.
export_sets_version ==
    /\ CanRun("export")
    /\ \E r \in UrlCommitResults :
         LET res == export_result(conan_data, r)
         IN /\ conan_data' = res.conan_data
            /\ error' = res.error
            /\ recipe' = IF r.ok THEN [recipe EXCEPT !.version = Some(<<r.commit>>)]
                         ELSE recipe
            /\ calls' = [calls EXCEPT !["export"] =
                            <<Call("get_url_and_commit", "recipe_folder", r.ok,
                                   [url |-> r.url, commit |-> r.commit])>>]
    /\ done' = done \cup {"export"}
    /\ UNCHANGED <<settings, info, env, test_requirements, work_tree,
                   folders, src_after_export>>

export ==
    /\ CanRun("export")
    /\ \E r \in UrlCommitResults :
         LET res == export_result(conan_data, r)
         IN /\ conan_data' = res.conan_data
            /\ error' = res.error
            /\ calls' = [calls EXCEPT !["export"] =
                            <<Call("get_url_and_commit", "recipe_folder", r.ok,
                                   [url |-> r.url, commit |-> r.commit])>>]
    /\ done' = done \cup {"export"}
    /\ UNCHANGED <<recipe, settings, info, env, test_requirements, work_tree,
                   folders, src_after_export>>

source ==
    /\ CanRun("source")
    /\ \E cl \in CloneResults, co \in BOOLEAN :
         LET res == source_result(conan_data, work_tree, cl, co)
         IN /\ work_tree' = res.work_tree
            /\ error' = res.error
            /\ calls' = [calls EXCEPT !["source"] = res.calls]
    /\ src_after_export' = ("export" \in done)
    /\ done' = done \cup {"source"}
    /\ UNCHANGED <<recipe, settings, info, env, test_requirements, conan_data, folders>>

layout ==
    /\ CanRun("layout")
    /\ folders' = "cmake_layout"
    /\ done' = done \cup {"layout"}
    /\ UNCHANGED <<recipe, settings, info, env, test_requirements, conan_data,
                   work_tree, error, calls, src_after_export>>

build ==
    /\ CanRun("build")
    /\ \E cf \in BOOLEAN, bd \in BOOLEAN :
         LET res == build_result(cf, bd)
         IN /\ error' = res.error
            /\ calls' = [calls EXCEPT !["build"] = res.calls]
    /\ done' = done \cup {"build"}
    /\ UNCHANGED <<recipe, settings, info, env, test_requirements, conan_data,
                   work_tree, folders, src_after_export>>

package ==
    /\ CanRun("package")
    /\ \E ok \in BOOLEAN :
         LET res == package_result(ok)
         IN /\ error' = res.error
            /\ calls' = [calls EXCEPT !["package"] = res.calls]
    /\ done' = done \cup {"package"}
    /\ UNCHANGED <<recipe, settings, info, env, test_requirements, conan_data,
                   work_tree, folders, src_after_export>>

Next ==
    \/ package_id
    \/ set_version
    \/ build_requirements
    \/ export
    \/ source
    \/ layout
    \/ build
    \/ package

Spec == Init /\ [][Next]_vars

----------------------------------------------------------------------------
\* Properties

SourceCalls == calls["source"]
BuildCalls == calls["build"]
Captured == calls["export"][1].out
DescribedTag == calls["set_version"][1].out

SourceRaised(kind) == error = Raised("source", kind)

Positions(c, op) == {i \in 1..Len(c) : c[i].op = op}

\* C1: when source() reads a store whose `source` entry has no `commit` key,
\* the phase fails with a KeyError and no clone call was made.
C1_MissingCommitNoClone ==
    (Len(SourceCalls) >= 1 /\ SourceCalls[1].ok
        /\ "commit" \notin DOMAIN SourceCalls[1].out)
    => (SourceRaised("KeyError") /\ Positions(SourceCalls, "clone") = {})

\* C2: when source() runs after a successful export() of the same evaluation, it
\* clones the url export captured, the checkout it makes is of the commit export
\* captured, and when both succeed the work tree is that url at that commit.
C2_ExportThenSourceReproduces ==
    src_after_export =>
        /\ Len(SourceCalls) >= 2
        /\ SourceCalls[2].op = "clone"
        /\ SourceCalls[2].arg = Captured.url
        /\ (SourceCalls[2].ok =>
              /\ Len(SourceCalls) = 3
              /\ SourceCalls[3].op = "checkout"
              /\ SourceCalls[3].arg = Captured.commit
              /\ (SourceCalls[3].ok =>
                    /\ work_tree.cloned
                    /\ work_tree.url = Captured.url
                    /\ work_tree.head = Captured.commit))

C2_Witness ==
    /\ src_after_export
    /\ Captured.url = "u2" /\ Captured.commit = "c2"
    /\ "branch" \in DOMAIN conan_data["source"]
    /\ Len(SourceCalls) = 3 /\ SourceCalls[3].ok
    /\ SourceCalls[2].out = "c1"
    /\ work_tree.head = "c2"

\* C3: after set_version() on a tag of length >= 2, the version is the tag
\* without its first character; the tag v2.3.1 gives the version 2.3.1.
C3_VersionIsTagTail ==
    ("set_version" \in done /\ calls["set_version"][1].ok) =>
        /\ (Len(DescribedTag) >= 2 => recipe.version = Some(Tail(DescribedTag)))
        /\ (DescribedTag = ExampleTag
              => recipe.version = Some(<<"2", ".", "3", ".", "1">>))

C3_Witness ==
    /\ "set_version" \in done
    /\ DescribedTag = <<"v", "v">>
    /\ recipe.version = Some(<<"v">>)

\* C4: the declared test requirements are a function of the toggle alone: none
\* before build_requirements() or with CONAN_RUN_TESTS unset or not "1"/"True",
\* and exactly catch2/2.13.9 and trompeloeil/42 with it "1" or "True".
C4_RequirementsFollowToggle ==
    test_requirements =
        IF "build_requirements" \in done /\ env \in {Some("1"), Some("True")}
        THEN {"catch2/2.13.9", "trompeloeil/42"}
        ELSE {}

C4_Witness ==
    /\ "build_requirements" \in done
    /\ env = Some("1")
    /\ test_requirements = {"catch2/2.13.9", "trompeloeil/42"}
    /\ {"set_version", "export", "package_id"} \subseteq done

ExportSucceeds == "export" \notin done /\ "export" \in done' /\ error' = None

OtherKeysKept ==
    \A k \in DOMAIN conan_data \ {"source"} :
        k \in DOMAIN conan_data' /\ conan_data'[k] = conan_data[k]

\* C5 as stated: a successful export() keeps every key other than `source`, and
\* `source` is then exactly {url, commit} as captured.
C5_SourceExactlyCaptured ==
    [][ExportSucceeds =>
          /\ OtherKeysKept
          /\ DOMAIN conan_data' = DOMAIN conan_data \cup {"source"}
          /\ DOMAIN conan_data'["source"] = {"url", "commit"}
          /\ conan_data'["source"]["url"] = calls'["export"][1].out.url
          /\ conan_data'["source"]["commit"] = calls'["export"][1].out.commit]_vars

\* C5 amended: a successful export() keeps every key other than `source`, sets
\* url and commit of `source` to the captured pair, and keeps every other key
\* that `source` already had.
C5_SourceMerged ==
    [][ExportSucceeds =>
          LET old == IF "source" \in DOMAIN conan_data
                     THEN conan_data["source"] ELSE EmptyDict
              new == conan_data'["source"]
          IN /\ OtherKeysKept
             /\ DOMAIN conan_data' = DOMAIN conan_data \cup {"source"}
             /\ DOMAIN new = DOMAIN old \cup {"url", "commit"}
             /\ new["url"] = calls'["export"][1].out.url
             /\ new["commit"] = calls'["export"][1].out.commit
             /\ \A j \in DOMAIN old \ {"url", "commit"} : new[j] = old[j]]_vars

C5_Witness ==
    /\ "export" \in done /\ error = None
    /\ Captured.url = "u2" /\ Captured.commit = "c2"
    /\ DOMAIN conan_data = {"source", "patches"}
    /\ conan_data["patches"] = "p1"
    /\ DOMAIN conan_data["source"] = {"url", "commit", "branch"}
    /\ conan_data["source"]["url"] = "u2"
    /\ conan_data["source"]["commit"] = "c2"
    /\ conan_data["source"]["branch"] = "main"

\* C6: after package_id() the identity info holds no settings, options or
\* requires, whatever the configured settings are.
C6_IdentityIndependentOfSettings ==
    "package_id" \in done =>
        /\ DOMAIN info.settings = {}
        /\ DOMAIN info.options = {}
        /\ info.requires = {}

C6_Witness ==
    /\ "package_id" \in done
    /\ settings.compiler = "clang" /\ settings.build_type = "Release"
    /\ DOMAIN info.settings = {}

\* C7: a clone that succeeded followed by a checkout that failed leaves no work
\* tree at a commit other than the recorded one.
C7_NoUsablePartialCheckout ==
    (Len(SourceCalls) = 3 /\ SourceCalls[2].ok /\ ~SourceCalls[3].ok) =>
        /\ error # None
        /\ ~(work_tree.cloned /\ work_tree.head # SourceCalls[3].arg)

\* C8: a describe query that fails leaves the recipe as it was, a
\* get_url_and_commit that fails leaves the store as it was, and either aborts.
C8_NoFallbackOnQueryFailure ==
    [][/\ ("set_version" \notin done /\ "set_version" \in done'
             /\ ~calls'["set_version"][1].ok)
          => (recipe' = recipe /\ recipe'.version = None
                /\ error' = Raised("set_version", "ConanException"))
       /\ ("export" \notin done /\ "export" \in done' /\ ~calls'["export"][1].ok)
          => (conan_data' = conan_data
                /\ error' = Raised("export", "ConanException"))]_vars

C8_Witness ==
    /\ "export" \in done
    /\ ~calls["export"][1].ok
    /\ "source" \notin DOMAIN conan_data
    /\ error = Raised("export", "ConanException")

\* C9: the version changes only in the set_version() step, from unassigned, and
\* name, author, url and description never change.
C9_VersionWrittenOnceBySetVersion ==
    [][/\ recipe'.version # recipe.version
          => ("set_version" \notin done /\ "set_version" \in done'
                /\ recipe.version = None)
       /\ recipe'.name = recipe.name
       /\ recipe'.author = recipe.author
       /\ recipe'.url = recipe.url
       /\ recipe'.description = recipe.description]_vars

C9_Witness ==
    /\ done = Phases
    /\ error = None
    /\ recipe.version = Some(<<"1">>)
    /\ recipe.name = "foundation"

\* C10: source() reads the store first, clones at most once, checks out at most
\* once and only after a clone that succeeded; build() configures at most once
\* and builds at most once and only after a configure that succeeded.
C10_CallsOrderedNoRetry ==
    /\ Cardinality(Positions(SourceCalls, "clone")) <= 1
    /\ Cardinality(Positions(SourceCalls, "checkout")) <= 1
    /\ \A i \in Positions(SourceCalls, "checkout") :
          \E j \in Positions(SourceCalls, "clone") : j < i /\ SourceCalls[j].ok
    /\ \A i \in Positions(SourceCalls, "clone") \cup Positions(SourceCalls, "checkout") :
          \E j \in Positions(SourceCalls, "conan_data['source']") :
              j < i /\ SourceCalls[j].ok
    /\ Cardinality(Positions(BuildCalls, "configure")) <= 1
    /\ Cardinality(Positions(BuildCalls, "build")) <= 1
    /\ \A i \in Positions(BuildCalls, "build") :
          \E j \in Positions(BuildCalls, "configure") : j < i /\ BuildCalls[j].ok

C10_Witness ==
    /\ Len(SourceCalls) = 3 /\ SourceCalls[3].op = "checkout" /\ ~SourceCalls[3].ok
    /\ Len(BuildCalls) = 2 /\ BuildCalls[2].op = "build"

====
